---- MODULE Spec2Model ----
(***************************************************************************)
(* The GitHub Repository Organizer API (src/main.py): the request handlers *)
(* of the FastAPI application over the process-wide MemoryStorage.         *)
(*                                                                         *)
(* The handlers are modelled from src/main.py.  The MemoryStorage class    *)
(* (module memory_storage) is modelled from sections 3 and 4.1 of the      *)
(* specification: an insertion-ordered sequence of records scanned         *)
(* linearly for the record with the matching id, and the id counter.       *)
(*                                                                         *)
(* A record (a Python dict) is a function from field names to values; a    *)
(* field the dict does not hold is not in its DOMAIN.                      *)
(***************************************************************************)
EXTENDS Integers, Sequences, FiniteSets, TLC

VARIABLES storage, resp, created, assigned, deleted, conc

vars == <<storage, resp, created, assigned, deleted, conc>>

\* The most records ever created in a run (caps the id counter).
MaxId == 2

\* Python's None for an absent query parameter (Optional[str] = None).
None == "None"

Ids == 1..(MaxId + 1)

(***************************************************************************)
(* Strings and str.lower() over the strings the model uses.                *)
(***************************************************************************)
lower(s) ==
    CASE s = "Python"  -> "python"
      [] s = "Go"      -> "go"
      [] s = "Backend" -> "backend"
      [] s = "USING"   -> "using"
      [] OTHER         -> s

\* Python truthiness of an Optional[str]: None and "" are falsy.
truthy(s) == s # None /\ s # ""

\* dict.update / {**a, **b}: the fields of upd over those of rec.
merge(rec, upd) == upd @@ rec

RECURSIVE SelectIdx(_, _, _)
\* The indices i of s, in order, for which keep[i] holds, as a sequence.
SelectIdx(s, keep, i) ==
    IF i > Len(s) THEN <<>>
    ELSE IF keep[i] THEN <<s[i]>> \o SelectIdx(s, keep, i + 1)
    ELSE SelectIdx(s, keep, i + 1)

RemoveAt(s, i) == SubSeq(s, 1, i - 1) \o SubSeq(s, i + 1, Len(s))

(***************************************************************************)
(* MemoryStorage, from the specification (sections 3, 4.1).                *)
(***************************************************************************)
MemoryStorage == [repos |-> <<>>, next_id |-> 1]

\* Index of the first record whose id matches, 0 when there is none.
find_index(st, repo_id) ==
    LET hits == {i \in 1..Len(st.repos) : st.repos[i].id = repo_id}
    IN  IF hits = {} THEN 0
        ELSE CHOOSE i \in hits : \A j \in hits : i <= j

storage_get_all_repos(st) == st.repos

storage_get_repo(st, repo_id) ==
    LET i == find_index(st, repo_id)
    IN  IF i = 0 THEN [found |-> FALSE]
        ELSE [found |-> TRUE, repo |-> st.repos[i]]

storage_add_repo(st, fields) ==
    LET new_repo == merge(fields, [id |-> st.next_id])
    IN  [st  |-> [repos |-> Append(st.repos, new_repo), next_id |-> st.next_id + 1],
         ret |-> new_repo]

storage_update_repo(st, repo_id, partial_fields) ==
    LET i == find_index(st, repo_id)
    IN  IF i = 0 THEN [raised |-> TRUE, st |-> st]
        ELSE LET updated == merge(st.repos[i], partial_fields)
             IN  [raised |-> FALSE,
                  st     |-> [st EXCEPT !.repos[i] = updated],
                  ret    |-> updated]

storage_delete_repo(st, repo_id) ==
    LET i == find_index(st, repo_id)
    IN  IF i = 0 THEN [st |-> st, ret |-> FALSE]
        ELSE [st |-> [st EXCEPT !.repos = RemoveAt(st.repos, i)], ret |-> TRUE]

(***************************************************************************)
(* The request handlers of src/main.py.  A handler maps the storage and    *)
(* its arguments to the storage it leaves and the HTTP response: a status  *)
(* code and a body.  An exception no handler catches (KeyError) is the     *)
(* server's 500 response.                                                  *)
(***************************************************************************)
InternalServerError == [code |-> 500, body |-> [detail |-> "Internal Server Error"]]

\* main.py 65-69: the language filter over the current results.
filter_language(res, language) ==
    IF res.raised \/ ~truthy(language) THEN res
    ELSE IF \E i \in 1..Len(res.repos) : "language" \notin DOMAIN res.repos[i]
         THEN [raised |-> TRUE, repos |-> <<>>]
    ELSE [raised |-> FALSE,
          repos  |-> SelectIdx(res.repos,
                        [i \in 1..Len(res.repos) |->
                            lower(res.repos[i].language) = lower(language)], 1)]

\* main.py 72-76: the tag filter over the current results.
filter_tag(res, tag) ==
    IF res.raised \/ ~truthy(tag) THEN res
    ELSE IF \E i \in 1..Len(res.repos) : "tags" \notin DOMAIN res.repos[i]
         THEN [raised |-> TRUE, repos |-> <<>>]
    ELSE [raised |-> FALSE,
          repos  |-> SelectIdx(res.repos,
                        [i \in 1..Len(res.repos) |->
                            \E k \in 1..Len(res.repos[i].tags) :
                                lower(res.repos[i].tags[k]) = lower(tag)], 1)]

\* main.py 79-83: the status filter over the current results.
filter_status(res, status) ==
    IF res.raised \/ ~truthy(status) THEN res
    ELSE IF \E i \in 1..Len(res.repos) : "status" \notin DOMAIN res.repos[i]
         THEN [raised |-> TRUE, repos |-> <<>>]
    ELSE [raised |-> FALSE,
          repos  |-> SelectIdx(res.repos,
                        [i \in 1..Len(res.repos) |->
                            lower(res.repos[i].status) = lower(status)], 1)]

\* GET /repos
get_all_repos(st, language, tag, status) ==
    LET results == [raised |-> FALSE, repos |-> storage_get_all_repos(st)]
        final   == filter_status(filter_tag(filter_language(results, language), tag), status)
    IN  [st   |-> st,
         resp |-> IF final.raised THEN InternalServerError
                  ELSE [code |-> 200,
                        body |-> [total |-> Len(final.repos), repos |-> final.repos]]]

\* GET /repos/{repo_id}
get_repo(st, repo_id) ==
    LET repo == storage_get_repo(st, repo_id)
    IN  [st   |-> st,
         resp |-> IF ~repo.found
                  THEN [code |-> 404, body |-> [detail |-> "not found"]]
                  ELSE [code |-> 200, body |-> repo.repo]]

\* add_repo with the url check made after the record is stored.
add_repo_validate_late(st, repo) ==
    LET new_repo == storage_add_repo(st, repo)
    IN  IF "url" \notin DOMAIN repo
        THEN [st   |-> new_repo.st,
              resp |-> [code |-> 400, body |-> [detail |-> "URL is required"]]]
        ELSE [st   |-> new_repo.st,
              resp |-> [code |-> 200,
                        body |-> [message |-> "Repository added successfully",
                                  repo    |-> new_repo.ret]]]

\* POST /repos
add_repo(st, repo) ==
    IF "url" \notin DOMAIN repo
    THEN [st |-> st, resp |-> [code |-> 400, body |-> [detail |-> "URL is required"]]]
    ELSE LET new_repo == storage_add_repo(st, repo)
         IN  [st   |-> new_repo.st,
              resp |-> [code |-> 200,
                        body |-> [message |-> "Repository added successfully",
                                  repo    |-> new_repo.ret]]]

\* update_repo answering a missing id by storing the body as a new record.
update_repo_upsert(st, repo_id, updates) ==
    LET updated_repo == storage_update_repo(st, repo_id, updates)
        new_repo     == storage_add_repo(st, updates)
    IN  IF updated_repo.raised
        THEN [st   |-> new_repo.st,
              resp |-> [code |-> 200,
                        body |-> [message |-> "Repository updated successfully",
                                  repo    |-> new_repo.ret]]]
        ELSE [st   |-> updated_repo.st,
              resp |-> [code |-> 200,
                        body |-> [message |-> "Repository updated successfully",
                                  repo    |-> updated_repo.ret]]]

\* update_repo passing the body completed with a default for tags.
update_repo_defaults(st, repo_id, updates) ==
    LET updated_repo == storage_update_repo(st, repo_id, merge([tags |-> <<>>], updates))
    IN  IF updated_repo.raised
        THEN [st |-> updated_repo.st,
              resp |-> [code |-> 404, body |-> [detail |-> "not found"]]]
        ELSE [st   |-> updated_repo.st,
              resp |-> [code |-> 200,
                        body |-> [message |-> "Repository updated successfully",
                                  repo    |-> updated_repo.ret]]]

\* update_repo storing the body in place of the record (PUT as replace).
update_repo_replace(st, repo_id, updates) ==
    LET i        == find_index(st, repo_id)
        replaced == merge([id |-> repo_id], updates)
    IN  IF i = 0
        THEN [st |-> st, resp |-> [code |-> 404, body |-> [detail |-> "not found"]]]
        ELSE [st   |-> [st EXCEPT !.repos[i] = replaced],
              resp |-> [code |-> 200,
                        body |-> [message |-> "Repository updated successfully",
                                  repo    |-> replaced]]]

\* PUT /repos/{repo_id}
update_repo(st, repo_id, updates) ==
    LET updated_repo == storage_update_repo(st, repo_id, updates)
    IN  IF updated_repo.raised
        THEN [st |-> updated_repo.st,
              resp |-> [code |-> 404, body |-> [detail |-> "not found"]]]
        ELSE [st   |-> updated_repo.st,
              resp |-> [code |-> 200,
                        body |-> [message |-> "Repository updated successfully",
                                  repo    |-> updated_repo.ret]]]

\* DELETE /repos/{repo_id}
delete_repo(st, repo_id) ==
    LET success == storage_delete_repo(st, repo_id)
    IN  [st   |-> success.st,
         resp |-> IF ~success.ret
                  THEN [code |-> 404, body |-> [detail |-> "not found"]]
                  ELSE [code |-> 200, body |-> [message |-> "deleted"]]]

RECURSIVE count_by(_, _, _)
\* main.py 208-217: the counting loop, d[key] = d.get(key, 0) + 1 per record.
count_by(all_repos, field, default) ==
    IF all_repos = <<>> THEN <<>>
    ELSE LET n    == Len(all_repos)
             d    == count_by(SubSeq(all_repos, 1, n - 1), field, default)
             repo == all_repos[n]
             key  == IF field \in DOMAIN repo THEN repo[field] ELSE default
         IN  [k \in (DOMAIN d) \cup {key} |->
                 IF k = key THEN (IF k \in DOMAIN d THEN d[k] ELSE 0) + 1 ELSE d[k]]

\* get_stats counting only the records that hold the field.
get_stats_skip_missing(st) ==
    LET all_repos == storage_get_all_repos(st)
        with(f)   == SelectIdx(all_repos,
                        [i \in 1..Len(all_repos) |-> f \in DOMAIN all_repos[i]], 1)
    IN  [st   |-> st,
         resp |-> [code |-> 200,
                   body |-> [total_repos |-> Len(all_repos),
                             by_language |-> count_by(with("language"), "language", "Unknown"),
                             by_status   |-> count_by(with("status"), "status", "unknown")]]]

\* GET /stats
get_stats(st) ==
    LET all_repos == storage_get_all_repos(st)
    IN  [st   |-> st,
         resp |-> [code |-> 200,
                   body |-> [total_repos |-> Len(all_repos),
                             by_language |-> count_by(all_repos, "language", "Unknown"),
                             by_status   |-> count_by(all_repos, "status", "unknown")]]]

(***************************************************************************)
(* Requests.  Bodies are free-form JSON objects; the sets below hold the   *)
(* shapes the handlers tell apart: with and without url, with and without  *)
(* the filtered fields, and an update body that names id.                  *)
(***************************************************************************)
CreateBodies ==
    { [url |-> "u"],
      [language |-> "Go"],
      [url |-> "u", language |-> "Python", tags |-> <<"Backend", "api">>, status |-> "using"] }

UpdateBodies ==
    { [status |-> "using"],
      [language |-> "Go"],
      [id |-> 1] }

LanguageParams == {None, "", "python"}
TagParams      == {None, "backend"}
StatusParams   == {None, "USING"}

NoRequest == [op |-> "none"]

Handle(st, req) ==
    CASE req.op = "POST"   -> add_repo(st, req.body)
      [] req.op = "PUT"    -> update_repo(st, req.id, req.body)
      [] req.op = "DELETE" -> delete_repo(st, req.id)
      [] req.op = "GET"    -> get_repo(st, req.id)
      [] req.op = "LIST"   -> get_all_repos(st, req.language, req.tag, req.status)
      [] req.op = "STATS"  -> get_stats(st)

\* The id counter stays within the model's bound.
WithinBound(req) ==
    req.op = "POST" /\ "url" \in DOMAIN req.body => storage.next_id <= MaxId

(***************************************************************************)
(* One request served to completion: the handlers are coroutines with no   *)
(* await in their bodies, so the event loop runs each from its first line  *)
(* to its return without serving another request in between.               *)
(*   created  - for each stored record, by position, the id it was given   *)
(*              when it was created                                        *)
(*   assigned - the ids returned by the successful creates, in order       *)
(*   deleted  - the ids for which a DELETE returned 200                    *)
(***************************************************************************)
Serve(req) ==
    LET h == Handle(storage, req)
        ok == h.resp.code = 200
    IN  /\ WithinBound(req)
        /\ storage' = h.st
        /\ resp' = [req |-> req, code |-> h.resp.code, body |-> h.resp.body]
        /\ created' = CASE req.op = "POST" /\ ok -> Append(created, h.resp.body.repo.id)
                        [] req.op = "DELETE" /\ ok ->
                                RemoveAt(created, find_index(storage, req.id))
                        [] OTHER -> created
        /\ assigned' = IF req.op = "POST" /\ ok
                       THEN Append(assigned, h.resp.body.repo.id) ELSE assigned
        /\ deleted' = IF req.op = "DELETE" /\ ok THEN deleted \cup {req.id} ELSE deleted

Init ==
    /\ storage = MemoryStorage
    /\ resp = [req |-> NoRequest, code |-> 0, body |-> <<>>]
    /\ created = <<>>
    /\ assigned = <<>>
    /\ deleted = {}
    /\ conc = [inflight |-> [c \in {1, 2} |-> NoRequest],
               done     |-> [c \in {1, 2} |-> NoRequest],
               overlap  |-> FALSE]

PostRepos ==
    \E body \in CreateBodies : Serve([op |-> "POST", body |-> body]) /\ UNCHANGED conc

PutRepo ==
    \E id \in Ids, body \in UpdateBodies :
        Serve([op |-> "PUT", id |-> id, body |-> body]) /\ UNCHANGED conc

DeleteRepo ==
    \E id \in Ids : Serve([op |-> "DELETE", id |-> id]) /\ UNCHANGED conc

GetRepo ==
    \E id \in Ids : Serve([op |-> "GET", id |-> id]) /\ UNCHANGED conc

GetRepos ==
    \E language \in LanguageParams, tag \in TagParams, status \in StatusParams :
        Serve([op |-> "LIST", language |-> language, tag |-> tag, status |-> status])
        /\ UNCHANGED conc

GetStats ==
    Serve([op |-> "STATS"]) /\ UNCHANGED conc

Next ==
    \/ PostRepos
    \/ PutRepo
    \/ DeleteRepo
    \/ GetRepo
    \/ GetRepos
    \/ GetStats

Spec == Init /\ [][Next]_vars

(***************************************************************************)
(* Simultaneous requests.  Two clients each have at most one write request *)
(* in flight; the server has accepted both before it runs either handler.  *)
(* The event loop then runs the handlers one at a time, in either order,   *)
(* each to completion (no handler body holds an await).                    *)
(*   conc.inflight[c] - the request of client c the server has accepted    *)
(*   conc.done[c]     - the response client c got, with its place in the   *)
(*                      order the handlers ran                             *)
(*   conc.overlap     - both requests were in flight at the same time      *)
(***************************************************************************)
Clients == {1, 2}

Other(c) == 3 - c

WriteRequests ==
    {[op |-> "POST", body |-> b] : b \in {b \in CreateBodies : "url" \in DOMAIN b}}
    \cup {[op |-> "PUT", id |-> i, body |-> b] : i \in Ids, b \in UpdateBodies}

InflightCreates == Cardinality({c \in Clients : conc.inflight[c].op = "POST"})

NumDone == Cardinality({c \in Clients : conc.done[c].op # "none"})

Submit(c) ==
    /\ conc.inflight[c].op = "none"
    /\ conc.done[c].op = "none"
    /\ \E req \in WriteRequests :
        /\ req.op = "POST" => storage.next_id + InflightCreates <= MaxId
        /\ conc' = [conc EXCEPT !.inflight[c] = req,
                                !.overlap = @ \/ conc.inflight[Other(c)].op # "none"]
    /\ UNCHANGED <<storage, resp, created, assigned, deleted>>

Dispatch(c) ==
    /\ conc.inflight[c].op # "none"
    /\ Serve(conc.inflight[c])
    /\ conc' = [conc EXCEPT !.inflight[c] = NoRequest,
                            !.done[c] = [op   |-> conc.inflight[c].op,
                                         req  |-> conc.inflight[c],
                                         seq  |-> NumDone + 1,
                                         code |-> resp'.code,
                                         body |-> resp'.body]]

NewRound ==
    /\ \A c \in Clients : conc.inflight[c].op = "none"
    /\ NumDone > 0
    /\ conc' = [inflight |-> [c \in Clients |-> NoRequest],
                done     |-> [c \in Clients |-> NoRequest],
                overlap  |-> FALSE]
    /\ UNCHANGED <<storage, resp, created, assigned, deleted>>

NextConc ==
    \/ \E c \in Clients : Submit(c)
    \/ \E c \in Clients : Dispatch(c)
    \/ NewRound

SpecConc == Init /\ [][NextConc]_vars

(***************************************************************************)
(* Properties.                                                             *)
(***************************************************************************)
Repos == storage.repos

Stored(id) == \E i \in 1..Len(Repos) : Repos[i].id = id

\* C1: every successful create returns an id strictly greater than every id
\* assigned by an earlier create, so no two stored records share an id and
\* every stored record carries an id some create assigned to it.
C1_UniqueIncreasingIds ==
    /\ \A i, j \in 1..Len(assigned) : i < j => assigned[i] < assigned[j]
    /\ \A i, j \in 1..Len(Repos) : i # j => Repos[i].id # Repos[j].id

\* C2: a create whose body has no url answers 400 and leaves the storage
\* (the records, their fields and the counter) as it was.
C2_CreateWithoutUrl ==
    [][ (resp'.req.op = "POST" /\ "url" \notin DOMAIN resp'.req.body)
            => (resp'.code = 400 /\ storage' = storage) ]_vars

C2_Witness ==
    /\ resp.req.op = "POST"
    /\ "url" \notin DOMAIN resp.req.body
    /\ resp.code = 400
    /\ Len(Repos) > 0

\* C3: an update for an id no stored record has (never created, or deleted)
\* answers 404 and leaves the storage as it was; it creates no record.
C3_UpdateMissing ==
    [][ (resp'.req.op = "PUT" /\ ~Stored(resp'.req.id))
            => (resp'.code = 404 /\ storage' = storage) ]_vars

C3_Witness ==
    /\ resp.req.op = "PUT"
    /\ resp.code = 404
    /\ resp.req.id \in deleted
    /\ Len(Repos) > 0

\* C4: a successful update changes, on one record with the requested id, the
\* fields its body names and nothing else: the record's other fields keep
\* their values, every other record is unchanged, and so is the counter.
C4_UpdateFrame ==
    [][ (resp'.req.op = "PUT" /\ resp'.code = 200)
            => /\ Len(storage'.repos) = Len(Repos)
               /\ storage'.next_id = storage.next_id
               /\ \E i \in 1..Len(Repos) :
                    /\ Repos[i].id = resp'.req.id
                    /\ \A j \in 1..Len(Repos) : j # i => storage'.repos[j] = Repos[j]
                    /\ DOMAIN storage'.repos[i] = DOMAIN Repos[i] \cup DOMAIN resp'.req.body
                    /\ \A f \in DOMAIN resp'.req.body :
                            storage'.repos[i][f] = resp'.req.body[f]
                    /\ \A f \in DOMAIN Repos[i] \ DOMAIN resp'.req.body :
                            storage'.repos[i][f] = Repos[i][f]
                    /\ resp'.body.repo = storage'.repos[i] ]_vars

C4_Witness ==
    /\ resp.req.op = "PUT"
    /\ resp.code = 200
    /\ resp.req.body = [status |-> "using"]
    /\ Len(Repos) = 2
    /\ \E i \in 1..2 :
        /\ Repos[i] = resp.body.repo
        /\ Repos[i].id = resp.req.id
        /\ {"url", "language", "tags"} \subseteq DOMAIN Repos[i]

\* C5: once a DELETE of an id has answered 200, a lookup of that id answers
\* 404 and so does another DELETE of it, whatever requests came in between;
\* and a DELETE answers 200 only when a record with that id was stored, and
\* removes exactly one record, one with that id.
C5_DeletedStaysGone ==
    [][ /\ \A id \in deleted' :
            /\ get_repo(storage', id).resp.code = 404
            /\ delete_repo(storage', id).resp.code = 404
        /\ (resp'.req.op = "DELETE" /\ resp'.code = 200) =>
            /\ Stored(resp'.req.id)
            /\ \E i \in 1..Len(Repos) :
                /\ Repos[i].id = resp'.req.id
                /\ storage'.repos = RemoveAt(Repos, i) ]_vars

\* A record that satisfies every supplied filter; a record without the
\* filtered field does not match.
Matches(repo, language, tag, status) ==
    /\ truthy(language) =>
            "language" \in DOMAIN repo /\ lower(repo.language) = lower(language)
    /\ truthy(tag) =>
            "tags" \in DOMAIN repo
            /\ \E k \in 1..Len(repo.tags) : lower(repo.tags[k]) = lower(tag)
    /\ truthy(status) =>
            "status" \in DOMAIN repo /\ lower(repo.status) = lower(status)

MatchingIdx(language, tag, status) ==
    {i \in 1..Len(Repos) : Matches(Repos[i], language, tag, status)}

\* s holds exactly the records at the indices idx, in the order of Repos.
IsSubsequenceAt(s, idx) ==
    /\ Len(s) = Cardinality(idx)
    /\ \E pos \in [1..Len(s) -> idx] :
        /\ \A a, b \in 1..Len(s) : a < b => pos[a] < pos[b]
        /\ \A a \in 1..Len(s) : s[a] = Repos[pos[a]]

\* C6: GET /repos answers with exactly the records that satisfy every
\* supplied filter, in insertion order, and total is their number.
C6_ListExact ==
    resp.req.op = "LIST" =>
        /\ resp.code = 200
        /\ IsSubsequenceAt(resp.body.repos,
                           MatchingIdx(resp.req.language, resp.req.tag, resp.req.status))
        /\ resp.body.total = Len(resp.body.repos)

\* C7: GET /repos has no failure outcome: it answers 200 with {total, repos}
\* in every state and for every combination of filters.
C7_ListNeverFails ==
    resp.req.op = "LIST" =>
        /\ resp.code = 200
        /\ DOMAIN resp.body = {"total", "repos"}

\* C8: the id field of every stored record is the id it was given when it
\* was created, and a successful lookup returns a record with the id asked.
C8_IdImmutable ==
    /\ Len(created) = Len(Repos)
    /\ \A i \in 1..Len(Repos) : Repos[i].id = created[i]
    /\ (resp.req.op = "GET" /\ resp.code = 200) => resp.body.id = resp.req.id

RECURSIVE SumOf(_)
SumOf(d) ==
    IF DOMAIN d = {} THEN 0
    ELSE LET k == CHOOSE x \in DOMAIN d : TRUE
         IN  d[k] + SumOf([x \in (DOMAIN d) \ {k} |-> d[x]])

ValueOr(repo, field, default) ==
    IF field \in DOMAIN repo THEN repo[field] ELSE default

\* counts maps each value of the field among the records of st (default for
\* a record without it) to the number of records having it.
CountsOf(counts, st, field, default) ==
    /\ DOMAIN counts = {ValueOr(st.repos[i], field, default) : i \in 1..Len(st.repos)}
    /\ \A v \in DOMAIN counts :
        counts[v] = Cardinality({i \in 1..Len(st.repos) :
                                    ValueOr(st.repos[i], field, default) = v})
    /\ SumOf(counts) = Len(st.repos)

First  == CHOOSE c \in Clients : conc.done[c].seq = 1
Second == Other(First)

\* Both clients' requests were in flight together and both have been served.
PairDone ==
    /\ conc.overlap
    /\ \A c \in Clients : conc.done[c].op # "none"

TwoCreates == \A c \in Clients : conc.done[c].op = "POST" /\ conc.done[c].code = 200

TwoUpdates ==
    /\ \A c \in Clients : conc.done[c].op = "PUT" /\ conc.done[c].code = 200
    /\ conc.done[1].req.id = conc.done[2].req.id

\* Two creates were given the same id, or one of the two records is not stored.
InconsistentIds ==
    /\ TwoCreates
    /\ \/ conc.done[1].body.repo.id = conc.done[2].body.repo.id
       \/ Len(Repos) < 2
       \/ SubSeq(Repos, Len(Repos) - 1, Len(Repos))
            # <<conc.done[First].body.repo, conc.done[Second].body.repo>>

\* A field the first update wrote and the second did not name is gone from
\* the record the second update left, or that record is not what is stored.
LostUpdate ==
    /\ TwoUpdates
    /\ LET b1 == conc.done[First].req.body
           b2 == conc.done[Second].req.body
           r  == conc.done[Second].body.repo
       IN  \/ \E f \in DOMAIN b1 \ DOMAIN b2 : f \notin DOMAIN r \/ r[f] # b1[f]
           \/ \E f \in DOMAIN b2 : f \notin DOMAIN r \/ r[f] # b2[f]
           \/ \A i \in 1..Len(Repos) : Repos[i] # r

Race == PairDone /\ (InconsistentIds \/ LostUpdate)

====
